---- MODULE Spec2Model ----
(***************************************************************************)
(* Log-Analytics: the anomaly/alerting path of src/main.py.                *)
(*                                                                         *)
(*   Spec           the burst detector: check_for_anomalies run serially   *)
(*                  on an arbitrary stream of events, the clock advancing  *)
(*                  between runs.                                          *)
(*   SpecIngest     ingestion: create_log and simulate_incident persist    *)
(*                  log rows and queue their background tasks, which then  *)
(*                  run in the order BackgroundTasks runs them.            *)
(*   SpecBroadcast  the live channel: observers connect, close and leave   *)
(*                  while broadcast_message iterates active_connections,   *)
(*                  one send at a time.                                    *)
(*   SpecRace       check_for_anomalies run by two worker threads at once, *)
(*                  one statement at a time.                               *)
(*   SpecFault      SpecIngest with db.commit() allowed to raise, for a    *)
(*                  log row in create_log and for an alert in a detection  *)
(*                  task.                                                  *)
(*   SpecRegistry   websocket_endpoint alone: accept, the keep-alive loop  *)
(*                  and the finally clause.                                *)
(*                                                                         *)
(* Time is counted in seconds.  datetime.utcnow() is modelled by the       *)
(* variable now, which never decreases.  The variables last_run,           *)
(* error_runs, trigger and faults and the fields seq, audience, failed and *)
(* removed of bc record what happened; the actions read them only to       *)
(* number the events and to bound the model.                               *)
(***************************************************************************)
EXTENDS Integers, Sequences, FiniteSets

VARIABLES
    now,                \* the wall clock, datetime.utcnow()
    recent_errors,      \* main.py:45, the sliding error window (a list of times)
    alerts,             \* the alerts table (database.py:27-36), in insertion order
    logs,               \* the logs table (database.py:16-25), in insertion order
    queues,             \* per request, the BackgroundTasks still to run
    active_connections, \* main.py:31, the list of connected observers
    closed,             \* the observers whose channel is closed: a send raises
    inbox,              \* per observer, the messages delivered to it
    handler,            \* per observer, where its websocket_endpoint stands
    bc,                 \* the broadcast_message call in progress, if any
    threads,            \* per worker thread, the locals of its check_for_anomalies
    last_run,           \* history: the most recent run of check_for_anomalies
    error_runs,         \* history: every ERROR run so far, oldest first
    trigger,            \* history: the log row whose detection task ran last
    faults              \* history: the commits that failed, the tasks never run

detector_vars == <<recent_errors, alerts, last_run, error_runs>>
ingest_vars   == <<logs, queues, trigger>>
channel_vars  == <<active_connections, closed, inbox, handler, bc>>

vars == <<now, recent_errors, alerts, logs, queues, active_connections, closed,
          inbox, handler, bc, threads, last_run, error_runs, trigger, faults>>

----------------------------------------------------------------------------
(* Bounds of the model *)

\* the clock stops advancing here
MaxTime == 70
\* ERROR events processed in one behaviour of Spec
MaxErrors == 6
\* requests made in one behaviour of SpecIngest
MaxRequests == 2
\* rows of the logs table that simulate_incident may fill
MaxLogs == 8
\* observers that connect in one behaviour
MaxConns == 3
\* worker threads running detection tasks at once
MaxThreads == 2
\* detection tasks started in one behaviour of SpecRace
MaxRaceRuns == 5
\* commits that fail in one behaviour of SpecFault
MaxFaults == 1
\* the largest skip and the largest limit of a paginated read
MaxSkip == 1
MaxLimit == 2
\* calls of broadcast_message in one behaviour of SpecBroadcast
MaxBroadcasts == 2

\* the amounts of time that may pass between two steps
Steps == {10, 30}

\* the observers and the worker threads, by number
Conns   == 1..MaxConns
Threads == 1..MaxThreads

----------------------------------------------------------------------------
(* Program constants: THRESHOLDS, main.py:38-42 *)

error_burst == 5
burst_window == 60

\* database.py:21
Levels == {"INFO", "WARNING", "ERROR", "CRITICAL"}

\* log.dict() of a LogCreate (models.py:5-13): the fields of the request and
\* nothing else; a LogCreate has no id.  service, message, error_code and
\* stack_trace play no part in detection and are left out.
LogDict(level) == [level |-> level]

NoRun == [level |-> "none", time |-> 0, raised |-> 0]

----------------------------------------------------------------------------
(* check_for_anomalies, main.py:55-76 *)

\* main.py:62 with the result of the comprehension dropped
PruneNothing(window, current_time) == window

\* main.py:62 with the comparison turned into >= (keeps a time exactly
\* burst_window old)
PruneInclusive(window, current_time) ==
    SelectSeq(window, LAMBDA t : t >= current_time - burst_window)

\* main.py:62: [t for t in recent_errors if t > current_time - timedelta(...)]
Prune(window, current_time) ==
    SelectSeq(window, LAMBDA t : t > current_time - burst_window)

\* main.py:64 widened to CRITICAL
IsErrorOrWorse(log) == log["level"] \in {"ERROR", "CRITICAL"}

\* main.py:64: log["level"] == "ERROR"
IsError(log) == log["level"] = "ERROR"

\* main.py:68 with > for >=
BurstExceeded(window) == Len(window) > error_burst

\* main.py:68: len(recent_errors) >= THRESHOLDS["error_burst"]
BurstReached(window) == Len(window) >= error_burst

\* main.py:73: log.get("id", 0)
LogIdOf(log) == IF "id" \in DOMAIN log THEN log["id"] ELSE 0

\* main.py:72: the f-string, as the pair of numbers it formats
BurstMessage(window) == <<"Error burst detected", Len(window), burst_window>>

\* main.py:78-84 and database.py:27-36: the row db.add/commit/refresh stores;
\* id is the autoincrement key, timestamp and is_resolved take their defaults
create_alert(table, alert_data) ==
    Append(table, [id          |-> Len(table) + 1,
                   timestamp   |-> now,
                   severity    |-> alert_data.severity,
                   message     |-> alert_data.message,
                   log_id      |-> alert_data.log_id,
                   is_resolved |-> FALSE,
                   resolved_at |-> "None"])

\* main.py:55-76, one whole run on the log dict `log`
check_for_anomalies(log) ==
    LET current_time == now
        pruned       == Prune(recent_errors, current_time)
        appended     == Append(pruned, current_time)
    IN  IF IsError(log)
        THEN /\ recent_errors' = appended
             /\ IF BurstReached(appended)
                THEN alerts' = create_alert(alerts,
                                   [severity |-> "HIGH",
                                    message  |-> BurstMessage(appended),
                                    log_id   |-> LogIdOf(log)])
                ELSE alerts' = alerts
             /\ last_run' = [level  |-> log["level"], time |-> current_time,
                             raised |-> IF BurstReached(appended) THEN 1 ELSE 0]
             /\ error_runs' = Append(error_runs,
                                 [time   |-> current_time,
                                  raised |-> BurstReached(appended)])
        ELSE /\ recent_errors' = pruned
             /\ alerts' = alerts
             /\ last_run' = [level |-> log["level"], time |-> current_time,
                             raised |-> 0]
             /\ error_runs' = error_runs

----------------------------------------------------------------------------
(* Ingestion: create_log and simulate_incident, main.py:108-131, 233-241 *)

\* main.py:111-114 and database.py:16-25: the row db.add/commit/refresh
\* stores; id is the autoincrement key, timestamp takes its default
LogRow(table, level) ==
    [id |-> Len(table) + 1, timestamp |-> now, level |-> level]

\* main.py:120: the message handed to broadcast_message
NewLogMessage(level) == [type |-> "new_log", data |-> LogDict(level)]

\* main.py:117 and 120: the two tasks create_log adds, in this order.  Each
\* carries log.dict(); row (history) names the row stored for the same event.
TasksFor(level, row) ==
    << [kind |-> "check",     log |-> LogDict(level),
        message |-> NewLogMessage(level), row |-> row],
       [kind |-> "broadcast", log |-> LogDict(level),
        message |-> NewLogMessage(level), row |-> row] >>

\* main.py:109-120: create_log as a function of the logs table and of the
\* request's BackgroundTasks
create_log(st, level) ==
    [logs  |-> Append(st.logs, LogRow(st.logs, level)),
     tasks |-> st.tasks \o TasksFor(level, Len(st.logs) + 1)]

\* log_generator.py:106-116: two warnings, then a burst of five errors
IncidentLevels ==
    <<"WARNING", "WARNING", "ERROR", "ERROR", "ERROR", "ERROR", "ERROR">>

\* main.py:237-240: the loop of simulate_incident over the generated logs,
\* every create_log adding to the same BackgroundTasks
RECURSIVE IngestAll(_, _)
IngestAll(st, levels) ==
    IF levels = <<>> THEN st
    ELSE IngestAll(create_log(st, Head(levels)), Tail(levels))

\* main.py:170-172 with the error filter counting every row
CountAllAsErrors(table) ==
    [total_logs    |-> Len(table),
     error_count   |-> Len(table),
     warning_count |-> Cardinality({i \in 1..Len(table) :
                                        table[i].level = "WARNING"})]

\* main.py:167-180: the counts of get_log_analytics
get_log_analytics(table) ==
    [total_logs    |-> Len(table),
     error_count   |-> Cardinality({i \in 1..Len(table) :
                                        table[i].level = "ERROR"}),
     warning_count |-> Cardinality({i \in 1..Len(table) :
                                        table[i].level = "WARNING"})]

\* main.py:199 with the filter turned round: the resolved alerts counted as
\* the active ones
CountResolvedAsActive(table) ==
    [total_alerts  |-> Len(table),
     active_alerts |-> Cardinality({i \in 1..Len(table) :
                                        table[i].is_resolved = TRUE})]

\* main.py:195-199: the counts of get_alert_analytics
get_alert_analytics(table) ==
    [total_alerts  |-> Len(table),
     active_alerts |-> Cardinality({i \in 1..Len(table) :
                                        table[i].is_resolved = FALSE})]

----------------------------------------------------------------------------
(* The paginated reads: get_logs and get_alerts, main.py:133-165 *)

\* order_by(timestamp.desc()): row into the rows already in order, behind
\* every row that is not older than it (rows of one timestamp come out in
\* the order of their keys)
RECURSIVE InsertByTimestamp(_, _)
InsertByTimestamp(row, rows) ==
    IF rows = <<>> THEN <<row>>
    ELSE IF Head(rows).timestamp >= row.timestamp
         THEN <<Head(rows)>> \o InsertByTimestamp(row, Tail(rows))
         ELSE <<row>> \o rows

\* main.py:136 and 153: .order_by(timestamp.desc())
RECURSIVE OrderByTimestampDesc(_)
OrderByTimestampDesc(table) ==
    IF table = <<>> THEN <<>>
    ELSE InsertByTimestamp(table[Len(table)],
             OrderByTimestampDesc(SubSeq(table, 1, Len(table) - 1)))

\* main.py:136 and 153: .offset(skip).limit(limit)
OffsetLimit(rows, skip, limit) ==
    SubSeq(rows, skip + 1,
           IF skip + limit < Len(rows) THEN skip + limit ELSE Len(rows))

\* main.py:133-148: GET /logs/
get_logs(table, skip, limit) ==
    LET rows == OffsetLimit(OrderByTimestampDesc(table), skip, limit)
    IN  [i \in 1..Len(rows) |->
            [id        |-> rows[i].id,
             timestamp |-> rows[i].timestamp,
             level     |-> rows[i].level]]

\* main.py:150-165: GET /alerts/
get_alerts(table, skip, limit) ==
    LET rows == OffsetLimit(OrderByTimestampDesc(table), skip, limit)
    IN  [i \in 1..Len(rows) |->
            [id          |-> rows[i].id,
             timestamp   |-> rows[i].timestamp,
             severity    |-> rows[i].severity,
             message     |-> rows[i].message,
             log_id      |-> rows[i].log_id,
             is_resolved |-> rows[i].is_resolved,
             resolved_at |-> rows[i].resolved_at]]

----------------------------------------------------------------------------
(* Persistence failures: db.commit() raises, main.py:113 and main.py:82 *)

\* main.py:111-120 with the failure of the commit caught and passed over:
\* no row is stored and the two tasks are added all the same
CommitErrorSwallowed(st, level) ==
    [logs  |-> st.logs,
     tasks |-> st.tasks \o TasksFor(level, Len(st.logs) + 1)]

\* main.py:111-114 with db.commit() raising: the exception leaves create_log
\* at line 113; no row is stored and lines 117 and 120 are not reached
create_log_failing(st, level) == st

\* main.py:237-240 with the commit of log number k raising: the rows of the
\* logs before it are stored; the exception leaves simulate_incident, the
\* request gets no response and the tasks added so far are never started
simulate_incident_failing(st, levels, k) ==
    LET stored == IngestAll(st, SubSeq(levels, 1, k - 1))
        failed == create_log_failing(stored, levels[k])
    IN  [logs |-> failed.logs, tasks |-> <<>>]

\* main.py:65 undone by a handler of the failure: the window goes back to
\* what it was before the append
WindowRestored(pruned, appended) == pruned

\* main.py:65-70 with db.commit() raising in create_alert: the append of line
\* 65 came first and nothing takes it back
WindowOnFailure(pruned, appended) == appended

\* the failure of the alert rolling back the row of the event as well
RollBackTrigger(table, row) == SelectSeq(table, LAMBDA r : r.id # row)

\* main.py:111-114 and 78-84: the row of the event was committed by
\* create_log before the task was added; the failed commit of the alert
\* leaves the logs table as it is
LogsOnAlertFailure(table, row) == table

\* main.py:116-120: the tasks were added to one BackgroundTasks, which runs
\* them in a plain loop; check_for_anomalies has no try/except (main.py:55-76),
\* so the exception ends the loop and the tasks after it never run
TasksAfterRaise(tasks) == <<>>

\* main.py:55-76 on an ERROR that reaches the threshold, db.commit() raising
\* in create_alert (main.py:82): no alert row is stored
check_for_anomalies_failing(log) ==
    LET current_time == now
        pruned       == Prune(recent_errors, current_time)
        appended     == Append(pruned, current_time)
    IN  /\ IsError(log)
        /\ BurstReached(appended)
        /\ recent_errors' = WindowOnFailure(pruned, appended)
        /\ alerts' = alerts
        /\ last_run' = [level |-> log["level"], time |-> current_time,
                        raised |-> 0]
        /\ error_runs' = Append(error_runs,
                               [time |-> current_time, raised |-> TRUE])

----------------------------------------------------------------------------
(* broadcast_message, main.py:47-53, and websocket_endpoint, main.py:86-106 *)

Range(seq) == {seq[i] : i \in 1..Len(seq)}

\* list.remove(x): the first occurrence of x goes, the rest keeps its order
Remove(seq, x) ==
    LET first == CHOOSE i \in 1..Len(seq) :
                     seq[i] = x /\ \A j \in 1..(i - 1) : seq[j] # x
    IN  SubSeq(seq, 1, first - 1) \o SubSeq(seq, first + 1, Len(seq))

\* main.py:51: send_json on a closed channel raises
SendRaises(c) == c \in closed

\* main.py:49: the call starts iterating active_connections at its first
\* element.  queue names the request whose task this is (0: none); seq,
\* audience, failed and removed are history.
StartBroadcast(message, q) ==
    [status |-> "running", idx |-> 1, message |-> message, queue |-> q,
     seq |-> bc.seq + 1, audience |-> Range(active_connections),
     failed |-> {}, removed |-> FALSE]

\* main.py:52 without the except: the error leaves broadcast_message
SendErrorPropagates(b, c) ==
    [b EXCEPT !.status = "raised", !.failed = @ \cup {c}]

\* main.py:52-53: the bare except logs the error and the loop goes on
OnSendError(b, c) ==
    [b EXCEPT !.idx = @ + 1, !.failed = @ \cup {c}]

\* main.py:49-53, one turn of the loop: the list iterator yields the element
\* at its index in the list as it is now, and the send is awaited
BroadcastSend ==
    /\ bc.status = "running"
    /\ bc.idx <= Len(active_connections)
    /\ LET c == active_connections[bc.idx]
       IN  IF SendRaises(c)
           THEN /\ bc' = OnSendError(bc, c)
                /\ inbox' = inbox
           ELSE /\ bc' = [bc EXCEPT !.idx = @ + 1]
                /\ inbox' = [inbox EXCEPT ![c] =
                                Append(@, [message |-> bc.message,
                                           seq     |-> bc.seq])]
    /\ UNCHANGED <<now, detector_vars, ingest_vars, active_connections,
                   closed, handler, threads, faults>>

\* main.py:49: the iterator is exhausted and broadcast_message returns; the
\* task is done and BackgroundTasks goes on to the next of the request
BroadcastFinish ==
    /\ bc.status = "running"
    /\ bc.idx > Len(active_connections)
    /\ bc' = [bc EXCEPT !.status = "done"]
    /\ queues' = IF bc.queue = 0 THEN queues
                 ELSE [queues EXCEPT ![bc.queue] = Tail(@)]
    /\ UNCHANGED <<now, detector_vars, logs, trigger, active_connections,
                   closed, inbox, handler, threads, faults>>

\* main.py:89-90: a new observer is accepted and appended
Connect ==
    /\ \E c \in Conns :
          /\ handler[c] = "none"
          /\ \A d \in Conns : d < c => handler[d] # "none"
          /\ handler' = [handler EXCEPT ![c] = "running"]
          /\ active_connections' = Append(active_connections, c)
    /\ UNCHANGED <<now, detector_vars, ingest_vars, closed, inbox, bc,
                   threads, faults>>

\* the handler of an observer is inside its loop (main.py:93-101): waiting
\* in receive_text, or about to echo what it received
Looping == {"running", "echoing"}

\* the peer of observer c closes its channel
ClientClose ==
    /\ \E c \in Conns :
          /\ handler[c] \in Looping
          /\ c \notin closed
          /\ closed' = closed \cup {c}
    /\ UNCHANGED <<now, detector_vars, ingest_vars, active_connections, inbox,
                   handler, bc, threads, faults>>

\* websocket_endpoint without its finally clause: the observer stays listed
LeaveOnExit(list, c) == list

\* main.py:104-106: the finally clause of websocket_endpoint
RemoveOnExit(list, c) ==
    IF c \in Range(list) THEN Remove(list, c) ELSE list

\* main.py:93-106: on the closed channel receive_text (or the echo of a
\* keep-alive, which goes to the observer alone and is not recorded here)
\* raises, the loop breaks and the finally clause removes the observer
HandlerExit ==
    /\ \E c \in Conns :
          /\ handler[c] \in Looping
          /\ c \in closed
          /\ handler' = [handler EXCEPT ![c] = "ended"]
          /\ active_connections' = RemoveOnExit(active_connections, c)
          /\ bc' = IF bc.status = "running"
                   THEN [bc EXCEPT !.removed = TRUE]
                   ELSE bc
    /\ UNCHANGED <<now, detector_vars, ingest_vars, closed, inbox, threads,
                   faults>>

----------------------------------------------------------------------------
(* The state after start-up: main.py:31 and 45, empty tables *)

NoMessage == [type |-> "none", data |-> [level |-> "none"]]

IdleBroadcast ==
    [status |-> "idle", idx |-> 0, message |-> NoMessage, queue |-> 0,
     seq |-> 0, audience |-> {}, failed |-> {}, removed |-> FALSE]

\* no commit has failed, no dispatched task was left unrun
NoFaults == [logs |-> 0, alerts |-> 0, abandoned |-> <<>>]

IdleThread ==
    [pc |-> "idle", log |-> [level |-> "none"], current_time |-> 0,
     pruned |-> <<>>, row |-> 0]

Init ==
    /\ now = 0
    /\ recent_errors = <<>>
    /\ alerts = <<>>
    /\ logs = <<>>
    /\ queues = <<>>
    /\ active_connections = <<>>
    /\ closed = {}
    /\ inbox = [c \in Conns |-> <<>>]
    /\ handler = [c \in Conns |-> "none"]
    /\ bc = IdleBroadcast
    /\ threads = [t \in Threads |-> IdleThread]
    /\ last_run = NoRun
    /\ error_runs = <<>>
    /\ trigger = 0
    /\ faults = NoFaults

\* time passes
Advance ==
    /\ \E d \in Steps : now + d <= MaxTime /\ now' = now + d
    /\ UNCHANGED <<detector_vars, ingest_vars, channel_vars, threads, faults>>

----------------------------------------------------------------------------
(* Spec: the detector on a serial stream of events *)

\* one event is processed
Detect ==
    /\ \E level \in Levels :
          /\ level = "ERROR" => Len(error_runs) < MaxErrors
          /\ check_for_anomalies(LogDict(level))
    /\ UNCHANGED <<now, ingest_vars, channel_vars, threads, faults>>

Next == Advance \/ Detect

Spec == Init /\ [][Next]_vars

----------------------------------------------------------------------------
(* SpecIngest: requests and their background tasks.  Starlette runs the     *)
(* tasks of one request after the response, in the order they were added,  *)
(* each to its end before the next.  Here the requests come one after      *)
(* another, each when the tasks of the one before are done, and a          *)
(* detection task is one step; SpecRace has two of them run at once.       *)

\* no task of an earlier request is left to run
Quiet == \A q \in 1..Len(queues) : queues[q] = <<>>

\* POST /logs/, main.py:108-131
CreateLog ==
    /\ Len(queues) < MaxRequests
    /\ Quiet
    /\ \E level \in Levels :
          LET r == create_log([logs |-> logs, tasks |-> <<>>], level)
          IN  /\ logs' = r.logs
              /\ queues' = Append(queues, r.tasks)
    /\ UNCHANGED <<now, detector_vars, trigger, channel_vars, threads, faults>>

\* POST /simulate/incident, main.py:233-241
SimulateIncident ==
    /\ Len(queues) < MaxRequests
    /\ Quiet
    /\ Len(logs) + Len(IncidentLevels) <= MaxLogs
    /\ LET r == IngestAll([logs |-> logs, tasks |-> <<>>], IncidentLevels)
       IN  /\ logs' = r.logs
           /\ queues' = Append(queues, r.tasks)
    /\ UNCHANGED <<now, detector_vars, trigger, channel_vars, threads, faults>>

\* the next task of request q is its detection task: main.py:117
RunCheck ==
    \E q \in 1..Len(queues) :
        /\ queues[q] # <<>>
        /\ Head(queues[q]).kind = "check"
        /\ check_for_anomalies(Head(queues[q]).log)
        /\ trigger' = Head(queues[q]).row
        /\ queues' = [queues EXCEPT ![q] = Tail(@)]
        /\ UNCHANGED <<now, logs, channel_vars, threads, faults>>

\* the next task of request q is its broadcast task: main.py:120
RunBroadcast ==
    /\ bc.status # "running"
    /\ \E q \in 1..Len(queues) :
          /\ queues[q] # <<>>
          /\ Head(queues[q]).kind = "broadcast"
          /\ bc' = StartBroadcast(Head(queues[q]).message, q)
    /\ UNCHANGED <<now, detector_vars, ingest_vars, active_connections,
                   closed, inbox, handler, threads, faults>>

\* no observer connects in SpecIngest: every broadcast finds the list empty
NextIngest ==
    \/ Advance
    \/ CreateLog
    \/ SimulateIncident
    \/ RunCheck
    \/ RunBroadcast
    \/ BroadcastFinish

SpecIngest == Init /\ [][NextIngest]_vars

----------------------------------------------------------------------------
(* SpecFault: SpecIngest with commits that may fail.  The tasks of one     *)
(* request run back to back; the clock is seen to advance between two      *)
(* requests.                                                               *)

\* time passes between two requests
AdvanceBetweenRequests ==
    /\ Quiet
    /\ Advance

\* POST /logs/ with db.commit() raising at main.py:113
CreateLogFails ==
    /\ Len(queues) < MaxRequests
    /\ Quiet
    /\ faults.logs + faults.alerts < MaxFaults
    /\ \E level \in Levels :
          LET r == create_log_failing([logs |-> logs, tasks |-> <<>>], level)
          IN  /\ logs' = r.logs
              /\ queues' = Append(queues, r.tasks)
    /\ faults' = [faults EXCEPT !.logs = @ + 1]
    /\ UNCHANGED <<now, detector_vars, trigger, channel_vars, threads>>

\* POST /simulate/incident with db.commit() raising for one of its logs
SimulateIncidentFails ==
    /\ Len(queues) < MaxRequests
    /\ Quiet
    /\ faults.logs + faults.alerts < MaxFaults
    /\ Len(logs) + Len(IncidentLevels) <= MaxLogs
    /\ \E k \in 1..Len(IncidentLevels) :
          LET r == simulate_incident_failing([logs |-> logs, tasks |-> <<>>],
                                             IncidentLevels, k)
          IN  /\ logs' = r.logs
              /\ queues' = Append(queues, r.tasks)
    /\ faults' = [faults EXCEPT !.logs = @ + 1]
    /\ UNCHANGED <<now, detector_vars, trigger, channel_vars, threads>>

\* the detection task of request q raises: the commit of its alert fails
RunCheckFails ==
    /\ faults.logs + faults.alerts < MaxFaults
    /\ \E q \in 1..Len(queues) :
          /\ queues[q] # <<>>
          /\ Head(queues[q]).kind = "check"
          /\ check_for_anomalies_failing(Head(queues[q]).log)
          /\ trigger' = Head(queues[q]).row
          /\ logs' = LogsOnAlertFailure(logs, Head(queues[q]).row)
          /\ queues' = [queues EXCEPT ![q] = TasksAfterRaise(Tail(@))]
          /\ faults' = [faults EXCEPT
                           !.alerts = @ + 1,
                           !.abandoned = @ \o Tail(queues[q])]
    /\ UNCHANGED <<now, channel_vars, threads>>

NextFault ==
    \/ AdvanceBetweenRequests
    \/ CreateLog
    \/ SimulateIncident
    \/ RunCheck
    \/ RunBroadcast
    \/ BroadcastFinish
    \/ CreateLogFails
    \/ SimulateIncidentFails
    \/ RunCheckFails

SpecFault == Init /\ [][NextFault]_vars

----------------------------------------------------------------------------
(* SpecBroadcast: the live channel *)

\* a broadcast task dispatched by create_log (main.py:120) starts
Broadcast ==
    /\ bc.status # "running"
    /\ bc.seq < MaxBroadcasts
    /\ \E level \in {"INFO", "ERROR"} :
          bc' = StartBroadcast(NewLogMessage(level), 0)
    /\ UNCHANGED <<now, detector_vars, ingest_vars, active_connections,
                   closed, inbox, handler, threads, faults>>

NextBroadcast ==
    \/ Connect
    \/ ClientClose
    \/ HandlerExit
    \/ Broadcast
    \/ BroadcastSend
    \/ BroadcastFinish

SpecBroadcast == Init /\ [][NextBroadcast]_vars

----------------------------------------------------------------------------
(* SpecRegistry: websocket_endpoint alone, every step of its loop.  The     *)
(* event loop runs a handler whose await has raised: the exit of a handler *)
(* on a closed channel is weakly fair.                                     *)

\* main.py:89 raises: the handshake fails, the observer was never appended
\* and the finally clause finds nothing to remove
AcceptFails ==
    /\ \E c \in Conns :
          /\ handler[c] = "none"
          /\ \A d \in Conns : d < c => handler[d] # "none"
          /\ handler' = [handler EXCEPT ![c] = "ended"]
          /\ active_connections' = RemoveOnExit(active_connections, c)
    /\ UNCHANGED <<now, detector_vars, ingest_vars, closed, inbox, bc,
                   threads, faults>>

\* main.py:96: receive_text returns a keep-alive message of the observer
ReceiveText ==
    /\ \E c \in Conns :
          /\ handler[c] = "running"
          /\ c \notin closed
          /\ handler' = [handler EXCEPT ![c] = "echoing"]
    /\ UNCHANGED <<now, detector_vars, ingest_vars, active_connections,
                   closed, inbox, bc, threads, faults>>

\* main.py:98: the echo is sent to the observer alone (it is no broadcast
\* and is not recorded in inbox) and the loop goes back to receive_text
SendText ==
    /\ \E c \in Conns :
          /\ handler[c] = "echoing"
          /\ c \notin closed
          /\ handler' = [handler EXCEPT ![c] = "running"]
    /\ UNCHANGED <<now, detector_vars, ingest_vars, active_connections,
                   closed, inbox, bc, threads, faults>>

NextRegistry ==
    \/ Connect
    \/ AcceptFails
    \/ ReceiveText
    \/ SendText
    \/ ClientClose
    \/ HandlerExit

SpecRegistry == Init /\ [][NextRegistry]_vars /\ WF_vars(HandlerExit)

----------------------------------------------------------------------------
(* SpecRace: check_for_anomalies is a plain def, so BackgroundTasks runs    *)
(* it in the thread pool; the detection tasks of two requests run in two   *)
(* threads at once and interleave between statements.                      *)

\* main.py:57-62, up to the value of the list comprehension: the task of
\* the next stored row starts in an idle thread, reads the clock and
\* computes the pruned list
RunBegin ==
    /\ trigger < MaxRaceRuns
    /\ \E t \in Threads, level \in {"ERROR", "WARNING"} :
          /\ threads[t].pc = "idle"
          /\ threads' = [threads EXCEPT ![t] =
                 [pc |-> "store", log |-> LogDict(level),
                  current_time |-> now,
                  pruned |-> Prune(recent_errors, now),
                  row |-> trigger + 1]]
    /\ trigger' = trigger + 1
    /\ UNCHANGED <<now, detector_vars, logs, queues, channel_vars, faults>>

\* main.py:62, the assignment to the global; a run on an event that is not
\* an ERROR returns after it (main.py:64, 76)
RunStore ==
    \E t \in Threads :
        /\ threads[t].pc = "store"
        /\ recent_errors' = threads[t].pruned
        /\ IF IsError(threads[t].log)
           THEN /\ threads' = [threads EXCEPT ![t].pc = "append"]
                /\ UNCHANGED last_run
           ELSE /\ threads' = [threads EXCEPT ![t] = IdleThread]
                /\ last_run' = [level  |-> threads[t].log["level"],
                                time   |-> threads[t].current_time,
                                raised |-> 0]
        /\ UNCHANGED <<now, alerts, error_runs, ingest_vars, channel_vars,
                       faults>>

\* main.py:65: append to whatever list the global names now
RunAppend ==
    \E t \in Threads :
        /\ threads[t].pc = "append"
        /\ recent_errors' = Append(recent_errors, threads[t].current_time)
        /\ threads' = [threads EXCEPT ![t].pc = "check"]
        /\ UNCHANGED <<now, alerts, last_run, error_runs, ingest_vars,
                       channel_vars, faults>>

\* main.py:68-76: the length of the global list decides
RunCheckBurst ==
    \E t \in Threads :
        /\ threads[t].pc = "check"
        /\ IF BurstReached(recent_errors)
           THEN alerts' = create_alert(alerts,
                              [severity |-> "HIGH",
                               message  |-> BurstMessage(recent_errors),
                               log_id   |-> LogIdOf(threads[t].log)])
           ELSE alerts' = alerts
        /\ last_run' = [level  |-> threads[t].log["level"],
                        time   |-> threads[t].current_time,
                        raised |-> IF BurstReached(recent_errors) THEN 1 ELSE 0]
        /\ error_runs' = Append(error_runs,
                             [time   |-> threads[t].current_time,
                              raised |-> BurstReached(recent_errors)])
        /\ threads' = [threads EXCEPT ![t] = IdleThread]
        /\ UNCHANGED <<now, recent_errors, ingest_vars, channel_vars, faults>>

\* time passes between two bursts of requests: the statements of runs that
\* overlap are microseconds apart
AdvanceBetweenRuns ==
    /\ \A t \in Threads : threads[t].pc = "idle"
    /\ Advance

NextRace ==
    \/ AdvanceBetweenRuns
    \/ RunBegin
    \/ RunStore
    \/ RunAppend
    \/ RunCheckBurst

SpecRace == Init /\ [][NextRace]_vars

----------------------------------------------------------------------------
(* Properties of the burst detector *)

\* the times of the ERROR runs so far, oldest first
ErrorTimes == [i \in 1..Len(error_runs) |-> error_runs[i].time]

\* the ERROR run j found at least error_burst ERROR runs, itself included,
\* less than burst_window before it
Qualifies(j) ==
    Cardinality({i \in 1..j :
        error_runs[j].time - error_runs[i].time < burst_window}) >= error_burst

NonErrorLevels == Levels \ {"ERROR"}

\* C1: a run of check_for_anomalies emits an alert if and only if the event is
\* an ERROR and the window, pruned and with the event's own time appended,
\* holds at least error_burst times; it then emits exactly one alert, of
\* severity HIGH.  There is no debouncing: the alerts are as many as the ERROR
\* runs that qualified.
C1_AlertIffBurst ==
    /\ [](Len(alerts) = Cardinality({j \in 1..Len(error_runs) : Qualifies(j)}))
    /\ [][\A level \in Levels :
            check_for_anomalies(LogDict(level)) =>
              LET inWindow == Cardinality({i \in 1..Len(recent_errors) :
                                  recent_errors[i] > now - burst_window})
                  fires    == level = "ERROR" /\ inWindow + 1 >= error_burst
              IN  IF fires
                  THEN /\ Len(alerts') = Len(alerts) + 1
                       /\ SubSeq(alerts', 1, Len(alerts)) = alerts
                       /\ alerts'[Len(alerts')].severity = "HIGH"
                  ELSE alerts' = alerts]_vars

\* a sustained burst: the run just made raised the second alert in a row
C1_Witness ==
    /\ Len(alerts) >= 2
    /\ last_run.raised = 1
    /\ Len(error_runs) >= 2
    /\ error_runs[Len(error_runs) - 1].raised

C3_FiveWithinWindowAlert ==
    \A i \in 1..Len(error_runs) :
        LET j == i + error_burst - 1
        IN  (j <= Len(error_runs)
             /\ error_runs[j].time - error_runs[i].time <= burst_window)
            => \E k \in i..j : error_runs[k].raised

\* five ERROR events in a row, the fifth less than burst_window after the
\* first, raise an alert at the fifth
C3_FiveInsideWindowAlert ==
    \A i \in 1..Len(error_runs) :
        LET j == i + error_burst - 1
        IN  (j <= Len(error_runs)
             /\ error_runs[j].time - error_runs[i].time < burst_window)
            => error_runs[j].raised

\* C4: from an empty window, five ERROR events and no others, the fifth
\* processed 70 seconds after the first, raise no alert.
C4_SpreadOver70NoAlert ==
    (/\ Len(error_runs) = 5
     /\ error_runs[5].time - error_runs[1].time = 70)
    => alerts = <<>>

\* the closest case: the last four of the five are inside one window
C4_Witness ==
    /\ Len(error_runs) = 5
    /\ error_runs[5].time - error_runs[1].time = 70
    /\ last_run.level = "ERROR"
    /\ Len(recent_errors) = 4

\* C5: a run on an event that is not an ERROR (INFO, WARNING, CRITICAL) adds
\* no time to recent_errors (what it leaves is a suffix of what it found) and
\* creates no alert, whatever the window held.
C5_NonErrorInert ==
    [][\A level \in NonErrorLevels :
         check_for_anomalies(LogDict(level)) =>
           /\ alerts' = alerts
           /\ Len(recent_errors') <= Len(recent_errors)
           /\ \A i \in 1..Len(recent_errors') :
                 recent_errors'[i] =
                     recent_errors[i + Len(recent_errors) - Len(recent_errors')]
      ]_vars

\* a CRITICAL run on a window that holds a burst
C5_Witness ==
    /\ last_run.level = "CRITICAL"
    /\ last_run.time = now
    /\ Len(recent_errors) >= error_burst

----------------------------------------------------------------------------
(* Properties of ingestion (SpecIngest) *)

\* the only request made was simulate_incident and all its tasks have run
IncidentDone ==
    /\ Len(queues) = 1
    /\ queues[1] = <<>>
    /\ [i \in 1..Len(logs) |-> logs[i].level] = IncidentLevels
    /\ bc.status # "running"

\* C6: an alert refers to the event that raised it: its log_id is the id of
\* the stored row whose detection task created the alert.
C6_AlertReferencesTrigger ==
    last_run.raised = 1 => alerts[Len(alerts)].log_id = trigger

\* C7: from empty tables and an empty window, simulate_incident alone, with
\* its last detection task running at most 10 seconds after the request,
\* leaves exactly one alert, of severity HIGH, and the analytics report
\* total_logs = 7, error_count = 5, warning_count = 2 and active_alerts = 1.
C7_IncidentScenario ==
    (IncidentDone /\ last_run.time - logs[1].timestamp <= 10)
    => /\ Len(alerts) = 1
       /\ alerts[1].severity = "HIGH"
       /\ get_log_analytics(logs) =
              [total_logs |-> 7, error_count |-> 5, warning_count |-> 2]
       /\ get_alert_analytics(alerts).active_alerts = 1

\* the incident is over, its tasks spread over the whole 10 seconds
C7_Witness ==
    /\ IncidentDone
    /\ last_run.time - logs[1].timestamp = 10
    /\ Len(alerts) = 1
    /\ trigger = 7

----------------------------------------------------------------------------
(* Properties of the live channel (SpecBroadcast) *)

\* how often observer c was delivered the message of broadcast number n
Received(c, n, message) ==
    Cardinality({i \in 1..Len(inbox[c]) :
                    inbox[c][i] = [message |-> message, seq |-> n]})

\* C8: when broadcast_message has finished, the observers whose send failed
\* in it are no longer in active_connections.
C8_FailedObserverRemoved ==
    bc.status = "done" => bc.failed \cap Range(active_connections) = {}

----------------------------------------------------------------------------
(* Properties of concurrent detection (SpecRace) *)

AllIdle == \A t \in Threads : threads[t].pc = "idle"

\* C10: the runs of check_for_anomalies are atomic to one another: when all
\* have returned, the window holds the time of every ERROR run made inside
\* it, and the alerts are those of a serial order of the same runs.
C10_AtomicDetection ==
    (AllIdle /\ last_run # NoRun)
    => /\ recent_errors =
              SelectSeq(ErrorTimes, LAMBDA t : last_run.time - t < burst_window)
       /\ Len(alerts) = Cardinality({j \in 1..Len(error_runs) : Qualifies(j)})

----------------------------------------------------------------------------
(* Properties of persistence failures (SpecFault) *)

\* every task still to run was added for a stored row of its event's level
TasksOfStoredRows ==
    \A q \in 1..Len(queues) :
        \A i \in 1..Len(queues[q]) :
            /\ queues[q][i].row \in 1..Len(logs)
            /\ logs[queues[q][i].row].level = queues[q][i].log["level"]

\* C11: the log row is committed before the detection and broadcast tasks of
\* its event are dispatched: every task waiting to run, and every detection
\* run made, is for a stored row.  When the commit of a log fails, the request
\* dispatches no task, the error window and the alerts stay as they were and
\* no broadcast starts.
C11_NoDispatchWithoutCommit ==
    /\ [](TasksOfStoredRows /\ trigger \in 0..Len(logs))
    /\ [][faults'.logs # faults.logs =>
            /\ queues' = Append(queues, <<>>)
            /\ UNCHANGED <<recent_errors, alerts, trigger, inbox, bc>>]_vars

\* simulate_incident has failed part-way: some of its rows are stored, no
\* task was dispatched, nothing was detected
C11_Witness ==
    /\ faults.logs = 1
    /\ Len(logs) \in 1..(Len(IncidentLevels) - 1)
    /\ queues = << <<>> >>
    /\ recent_errors = <<>>
    /\ alerts = <<>>
    /\ trigger = 0

\* C12: there is no rollback coupling between an alert and its log: in the
\* step in which the commit of an alert fails inside detection, the logs table
\* is left exactly as it was (as it is when the alert is stored), and the row
\* of the ERROR event that triggered the alert is still stored in it.
C12_LogSurvivesAlertFailure ==
    [][faults'.alerts # faults.alerts =>
         /\ logs' = logs
         /\ trigger' \in 1..Len(logs')
         /\ logs'[trigger'].id = trigger'
         /\ logs'[trigger'].level = "ERROR"]_vars

\* the alert of the fifth ERROR of an incident was not stored; the row of
\* that ERROR is
C12_Witness ==
    /\ faults.alerts = 1
    /\ alerts = <<>>
    /\ Len(recent_errors) >= error_burst
    /\ trigger \in 1..Len(logs)
    /\ logs[trigger].level = "ERROR"
    /\ get_log_analytics(logs).error_count >= error_burst

----------------------------------------------------------------------------
(* Properties of the paginated reads *)

Skips  == 0..MaxSkip
Limits == 0..MaxLimit

\* what GET /logs/ and GET /alerts/ answer in the state before a step and in
\* the state after it, for every (skip, limit)
SameLogsRead ==
    \A skip \in Skips : \A limit \in Limits :
        get_logs(logs', skip, limit) = get_logs(logs, skip, limit)

SameAlertsRead ==
    \A skip \in Skips : \A limit \in Limits :
        get_alerts(alerts', skip, limit) = get_alerts(alerts, skip, limit)

\* the step is a call of create_log or simulate_incident
IngestionCall == Len(queues') # Len(queues)

\* the step is the run of a detection task
DetectionRun == last_run' # last_run \/ error_runs' # error_runs

\* C13, as stated: two reads with the same (skip, limit) and no ingestion
\* call between them return the same rows, also while a dispatched detection
\* task is still to run: no step other than an ingestion call changes what
\* get_logs or get_alerts returns.
C13_ReadsIdempotent ==
    [][~IngestionCall => SameLogsRead /\ SameAlertsRead]_vars

\* C13, amended: no step other than an ingestion call changes what get_logs
\* returns, and no step other than an ingestion call or the run of a
\* detection task changes what get_alerts returns.
C13_ReadsIdempotentOnceDetected ==
    /\ [][~IngestionCall => SameLogsRead]_vars
    /\ [][(~IngestionCall /\ ~DetectionRun) => SameAlertsRead]_vars

\* both tables have rows to page through and every task has run
C13_Witness ==
    /\ Len(logs) > MaxSkip + MaxLimit
    /\ Len(alerts) >= 1
    /\ Quiet
    /\ get_alerts(alerts, 0, 1) # <<>>
    /\ get_logs(logs, 1, 2) # get_logs(logs, 0, 2)

----------------------------------------------------------------------------
(* Properties of the observer registry (SpecBroadcast, SpecRegistry) *)

\* C14: a broadcast never works on a torn view of the list: when it has
\* finished, every observer that was in active_connections when it started,
\* whose handler is still running and whose channel is still open, has been
\* sent its message exactly once, whichever other observers left or joined
\* between two of its sends.
C14_NoTornView ==
    bc.status = "done" =>
        \A c \in bc.audience :
            (handler[c] = "running" /\ c \notin closed)
                => Received(c, bc.seq, bc.message) = 1

----------------------------------------------------------------------------
(* Properties of failing detection tasks (SpecFault) *)

\* C15: a dispatched task runs to its end or fails silently: the failure of
\* an alert's commit inside a detection task is contained, so that no task
\* dispatched with it (the broadcast of the same event, the detection and the
\* broadcast of the later events of the request) is left unrun.
C15_FailureContained == faults.abandoned = <<>>

\* C16: the window is updated before the alert is stored and the update is
\* not undone when the commit of the alert fails: after a failure the window
\* still holds the time of every ERROR run made inside it, the failed one
\* included, and every ERROR run that found the threshold reached has
\* attempted an alert, stored or failed.
C16_WindowKeepsFailedEvent ==
    (faults.alerts > 0) =>
        /\ recent_errors =
               SelectSeq(ErrorTimes,
                         LAMBDA t : last_run.time - t < burst_window)
        /\ Len(alerts) + faults.alerts =
               Cardinality({j \in 1..Len(error_runs) : Qualifies(j)})

\* the alert of the fifth ERROR failed; the sixth ERROR, inside the window,
\* found six times in it and its alert was stored
C16_Witness ==
    /\ faults.alerts = 1
    /\ Len(error_runs) = error_burst + 1
    /\ Len(recent_errors) = error_burst + 1
    /\ last_run.raised = 1
    /\ Len(alerts) = 1
    /\ alerts[1].message = BurstMessage(recent_errors)

----------------------------------------------------------------------------
(* Properties of the alerts table (SpecFault) *)

\* C17: no operation resolves an alert.  Every stored alert has is_resolved
\* false and resolved_at unset; get_alert_analytics reports active_alerts =
\* total_alerts = the number of alerts stored so far, one for every ERROR run
\* that found the threshold reached and whose commit did not fail; and the
\* table only grows, by rows added at its end.
C17_AlertsNeverResolved ==
    /\ [](/\ \A i \in 1..Len(alerts) :
                /\ alerts[i].is_resolved = FALSE
                /\ alerts[i].resolved_at = "None"
          /\ get_alert_analytics(alerts).active_alerts =
                 get_alert_analytics(alerts).total_alerts
          /\ get_alert_analytics(alerts).total_alerts =
                 Cardinality({j \in 1..Len(error_runs) : Qualifies(j)})
                     - faults.alerts)
    /\ [][/\ Len(alerts') >= Len(alerts)
          /\ SubSeq(alerts', 1, Len(alerts)) = alerts]_vars

\* two alerts were raised, at different times, and both count as active
C17_Witness ==
    /\ Len(alerts) = 2
    /\ alerts[1].timestamp < alerts[2].timestamp
    /\ get_alert_analytics(alerts) = [total_alerts |-> 2, active_alerts |-> 2]

----------------------------------------------------------------------------
(* Properties of websocket_endpoint (SpecRegistry) *)

\* C18: active_connections holds each observer at most once, and only
\* observers whose connection was accepted and whose handler is still in its
\* loop; an observer whose handler has ended is not in the list; and an
\* observer whose channel is closed leaves the list in the end, by its own
\* handler, no broadcast being made.
C18_RegistryLifecycle ==
    /\ [](/\ \A i, j \in 1..Len(active_connections) :
                active_connections[i] = active_connections[j] => i = j
          /\ \A c \in Range(active_connections) : handler[c] \in Looping
          /\ \A c \in Conns :
                handler[c] = "ended" => c \notin Range(active_connections))
    /\ \A c \in Conns :
          (c \in closed) ~> (c \notin Range(active_connections))

\* no broadcast was ever made; the first observer closed its channel and
\* its handler has removed it, the second is still listed, about to echo
C18_Witness ==
    /\ bc.seq = 0
    /\ 1 \in closed
    /\ handler[1] = "ended"
    /\ handler[2] = "echoing"
    /\ active_connections = <<2>>

====
